---- MODULE Spec2Model ----
(***************************************************************************)
(* Model of the manifest-based puppy-photo sync (src/unnamed/part_002):    *)
(* main() reads the first-seen manifest, runs syncBreed for "bouviers"     *)
(* and then "lowchen" (list, touch, classify, name, download-if-missing,   *)
(* write the summary), and writes the manifest once at the end.  Any       *)
(* exception rejects main() and the process exits with status 1.           *)
(*                                                                         *)
(* Time is counted in ticks; one day is TicksPerDay ticks.  An ISO         *)
(* timestamp is modelled by its tick count.                                *)
(***************************************************************************)
EXTENDS Integers, Sequences, FiniteSets, TLC

\* ------------------------------------------------------------------ bounds
\* Resolution of the clock: ticks per day
TicksPerDay == 2

\* ------------------------------------------------------- program constants
DAYS_TO_KEEP_CURRENT == 90

\* main() syncs the two breeds in this order
BreedOrder == <<"bouviers", "lowchen">>
Breeds == {BreedOrder[k] : k \in 1..Len(BreedOrder)}

\* Drive file ids that may show up in each breed's folder
FolderIds == [bouviers |-> {"a1", "a2"}, lowchen |-> {"b1"}]

\* Display names of Drive files, as sequences of characters
NameBuddy == <<"B", "u", "d", " ", "1", ".", "P", "N", "G">>
Names == {NameBuddy}

\* A display name that keeps no character of [a-zA-Z0-9._-] before its
\* extension
NameBang == <<"!", "!", ".", "j", "p", "g">>

\* The assets that are renamed upstream, and the names they go by
RenamedIds == [bouviers |-> {"a1"}, lowchen |-> {"b1"}]
RemoteNames == [bouviers |-> {NameBuddy, NameBang}, lowchen |-> {NameBuddy}]

\* Byte contents a download can deliver
Contents == {"v1"}

\* Instants at which a process can start: two instants of day 0, the start
\* of day DAYS_TO_KEEP_CURRENT + 1, and the start of the day one year and
\* a day after day 0.  No two processes start at the same instant, so
\* these also bound the number of runs.
Instants ==
  {0, 1, (DAYS_TO_KEEP_CURRENT + 1) * TicksPerDay, (365 + 1) * TicksPerDay}

EmptyMap == [x \in {} |-> 0]

\* --------------------------------------------------------- pure functions

\* daysBetweenIso: floor of the difference in whole days
daysBetweenByDayOfYear(olderIso, newerIso) ==
  ((newerIso \div TicksPerDay) % 365) - ((olderIso \div TicksPerDay) % 365)
daysBetweenIso(olderIso, newerIso) == (newerIso - olderIso) \div TicksPerDay

\* const isArchive = ageDays > DAYS_TO_KEEP_CURRENT
isArchiveOffByOne(ageDays) == ageDays >= DAYS_TO_KEEP_CURRENT
isArchive(ageDays) == ageDays > DAYS_TO_KEEP_CURRENT

\* sha1(f.id).slice(0, 10): a fingerprint of the id alone
sha1Prefix(id) == <<"sha1", id>>

Letters ==
  {"a", "b", "c", "d", "e", "f", "g", "h", "i", "j", "k", "l", "m", "n", "o",
   "p", "q", "r", "s", "t", "u", "v", "w", "x", "y", "z"}
Uppers ==
  {"A", "B", "C", "D", "E", "F", "G", "H", "I", "J", "K", "L", "M", "N", "O",
   "P", "Q", "R", "S", "T", "U", "V", "W", "X", "Y", "Z"}
Digits == {"0", "1", "2", "3", "4", "5", "6", "7", "8", "9"}
IsSpace(ch) == ch \in {" ", "\t", "\n"}
\* [a-zA-Z0-9._-]
IsAllowed(ch) == ch \in Letters \cup Uppers \cup Digits \cup {".", "_", "-"}

LowerPairs ==
  {<<"A", "a">>, <<"B", "b">>, <<"C", "c">>, <<"D", "d">>, <<"E", "e">>,
   <<"F", "f">>, <<"G", "g">>, <<"H", "h">>, <<"I", "i">>, <<"J", "j">>,
   <<"K", "k">>, <<"L", "l">>, <<"M", "m">>, <<"N", "n">>, <<"O", "o">>,
   <<"P", "p">>, <<"Q", "q">>, <<"R", "r">>, <<"S", "s">>, <<"T", "t">>,
   <<"U", "u">>, <<"V", "v">>, <<"W", "w">>, <<"X", "x">>, <<"Y", "y">>,
   <<"Z", "z">>}
LowerChar(ch) ==
  IF ch \in Uppers THEN (CHOOSE p \in LowerPairs : p[1] = ch)[2] ELSE ch
toLowerCase(s) == [k \in 1..Len(s) |-> LowerChar(s[k])]

\* .replace(/\s+/g, "_"): every maximal run of whitespace becomes one "_"
RECURSIVE replaceSpaces(_)
replaceSpaces(s) ==
  IF s = <<>> THEN <<>>
  ELSE IF IsSpace(Head(s))
       THEN IF Len(s) > 1 /\ IsSpace(s[2])
            THEN replaceSpaces(Tail(s))
            ELSE <<"_">> \o replaceSpaces(Tail(s))
       ELSE <<Head(s)>> \o replaceSpaces(Tail(s))

\* .replace(/[^a-zA-Z0-9._-]/g, "")
stripDisallowed(s) == SelectSeq(s, IsAllowed)

\* .trim()
RECURSIVE trimLeft(_)
trimLeft(s) ==
  IF s # <<>> /\ IsSpace(Head(s)) THEN trimLeft(Tail(s)) ELSE s
RECURSIVE trimRight(_)
trimRight(s) ==
  IF s # <<>> /\ IsSpace(s[Len(s)])
  THEN trimRight(SubSeq(s, 1, Len(s) - 1)) ELSE s
trim(s) == trimRight(trimLeft(s))

\* safeFilename(name): the sanitized base, or a placeholder built from the
\* clock (Date.now()) when nothing is left
safeFilename(name, dateNow) ==
  LET base == trim(stripDisallowed(replaceSpaces(name)))
  IN IF base # <<>> THEN base ELSE <<"photo_", dateNow, ".jpg">>

\* Position of the last "." of s, 0 when there is none
LastDot(s) ==
  LET dots == {k \in 1..Len(s) : s[k] = "."}
  IN IF dots = {} THEN 0 ELSE CHOOSE k \in dots : \A j \in dots : j <= k

\* path.parse(name).name: the name without its last extension (a leading
\* dot starts no extension)
parseName(name) ==
  IF LastDot(name) > 1 THEN SubSeq(name, 1, LastDot(name) - 1) ELSE name

ImageExts ==
  {<<".", "j", "p", "g">>, <<".", "j", "p", "e", "g">>,
   <<".", "p", "n", "g">>, <<".", "w", "e", "b", "p">>}

\* (f.name || "").match(/\.(jpe?g|png|webp)$/i), lower-cased, else ".jpg"
extOf(name) ==
  LET d == LastDot(name)
      tail == IF d = 0 THEN <<>> ELSE toLowerCase(SubSeq(name, d, Len(name)))
  IN IF tail \in ImageExts THEN tail ELSE <<".", "j", "p", "g">>

\* `${safeFilename(path.parse(f.name || "photo").name)}_${sha1(f.id).slice(0, 10)}${ext}`
stableName(f, dateNow) ==
  LET name == IF f.name = <<>> THEN <<"p", "h", "o", "t", "o">> ELSE f.name
  IN <<safeFilename(parseName(name), dateNow), sha1Prefix(f.id), extOf(f.name)>>

\* path.join(destDir, stableName) under images/puppies/<breed>/<area>
destPath(breedKey, archive, filename) ==
  <<breedKey, IF archive THEN "archive" ELSE "current", filename>>


\* ------------------------------------------------------- the Drive listing

\* A display name without an image extension
NameNotes == <<"n", "o", "t", "e", "s", ".", "t", "x", "t">>

\* f.mimeType of a listed entry; "" when the field is absent
MimeTypes == {"", "image/png", "application/octet-stream", "application/pdf"}

\* f.mimeType.startsWith("image/")
startsWithImage(mimeType) == mimeType \in {"image/png"}

\* /\.(jpe?g|png|webp)$/i.test(f.name || "")
hasImageExt(name) ==
  LET d == LastDot(name)
  IN d > 0 /\ toLowerCase(SubSeq(name, d, Len(name))) \in ImageExts

\* The entries of a page that listFilesInFolder pushes:
\* if (!f.mimeType) continue; then if (isImage) files.push(f)
pushed(f) ==
  /\ f.mimeType # ""
  /\ startsWithImage(f.mimeType) \/ hasImageExt(f.name)

\* b.modifiedTime || b.createdTime: a time is <<>> when the field is absent
remoteTime(f) ==
  IF f.modifiedTime # <<>> THEN f.modifiedTime[1] ELSE f.createdTime[1]

\* files.sort((a, b) => remoteTime(b) - remoteTime(a)): Array.prototype.sort
\* is stable, so entries with equal times keep the order they were pushed in
RECURSIVE insertSorted(_, _)
insertSorted(sorted, f) ==
  IF sorted = <<>> THEN <<f>>
  ELSE IF remoteTime(Head(sorted)) >= remoteTime(f)
       THEN <<Head(sorted)>> \o insertSorted(Tail(sorted), f)
       ELSE <<f>> \o sorted
RECURSIVE sortNewestFirst(_, _)
sortNewestFirst(sorted, rest) ==
  IF rest = <<>> THEN sorted
  ELSE sortNewestFirst(insertSorted(sorted, Head(rest)), Tail(rest))

\* The while loop over the pages of drive.files.list
RECURSIVE collectPages(_)
collectPages(pages) ==
  IF pages = <<>> THEN <<>>
  ELSE SelectSeq(Head(pages), pushed) \o collectPages(Tail(pages))

listFilesInFolder(pages) == sortNewestFirst(<<>>, collectPages(pages))

\* const ageDays = daysBetweenIso(firstSeenIso, runNowIso): the age counts
\* from the manifest's first-seen time, whatever the entry's remote times
ageDaysOfRemoteTime(f, firstSeenIso, nowIso) == daysBetweenIso(remoteTime(f), nowIso)
ageDaysOf(f, firstSeenIso, nowIso) == daysBetweenIso(firstSeenIso, nowIso)

\* ----------------------------------------------------------- manifest file

\* { version: 1, firstSeen: {} }
EmptyManifest == [version |-> 1, firstSeen |-> EmptyMap]

\* A manifest file that parses as JSON but holds no firstSeen object
MalformedManifest == [version |-> 1]

AbsentFile == [state |-> "absent", value |-> EmptyManifest]
GarbageFile == [state |-> "garbage", value |-> EmptyManifest]
JsonFile(v) == [state |-> "json", value |-> v]

\* readManifest: the empty store when the file is absent or JSON.parse
\* throws, otherwise whatever JSON.parse returns
readManifest(file) ==
  IF file.state = "absent" THEN EmptyManifest
  ELSE IF file.state = "garbage" THEN EmptyManifest
  ELSE file.value

\* writeManifest: fs.writeFileSync(MANIFEST_PATH, JSON.stringify(manifest))
writeManifest(m) == JsonFile(m)

\* manifest.firstSeen[breedKey] = manifest.firstSeen[breedKey] || {}
withBreedKey(m, breedKey) ==
  IF breedKey \in DOMAIN m.firstSeen THEN m
  ELSE [m EXCEPT !.firstSeen = breedKey :> EmptyMap @@ m.firstSeen]

\* if (!manifest.firstSeen[breedKey][f.id]) manifest.firstSeen[breedKey][f.id] = runNowIso
touch(seen, id, nowIso) ==
  IF id \in DOMAIN seen THEN seen ELSE id :> nowIso @@ seen

\* if (!fs.existsSync(destPath)) await downloadFile(...)
needsDownloadIgnoringDisk(dsk, p) == TRUE
needsDownloadInverted(dsk, p) == p \in DOMAIN dsk
needsDownload(dsk, p) == p \notin DOMAIN dsk

\* -------------------------------------------------------------------- state
VARIABLES
  clock,         \* wall clock when the latest process started, in ticks
  manifestFile,  \* data/puppy-photo-manifest.json
  summaryFile,   \* data/puppy-photos-<breed>.json, <<>> when absent
  disk,          \* images/puppies/...: path -> bytes, for the paths that exist
  pc,            \* position of the process: idle, list, loop, persist, exited
  exitCode,      \* exit status of the last process
  exitCause,     \* what rejected main()
  runNowIso,     \* main: const runNowIso = nowIso()
  manifest,      \* main: const manifest = readManifest()
  breedIdx,      \* index in BreedOrder of the syncBreed call in progress
  files,         \* syncBreed: const files
  idx,           \* syncBreed: position of the for loop in files
  current,       \* syncBreed: const current = []
  archiveCount,  \* syncBreed: let archiveCount = 0
  hist,          \* record of what happened, for stating the properties
  remote,        \* how the content fetches of the run in progress turn out
  namer,         \* a display name and an id, and the names computed for them
  twin,          \* two syncBreed calls over two answers of the remote store
  gallery        \* the page that loads galleries: window, DOM and requests

progVars == <<runNowIso, manifest, breedIdx, files, idx, current, archiveCount>>
vars ==
  <<clock, manifestFile, summaryFile, disk, pc, exitCode, exitCause,
    runNowIso, manifest, breedIdx, files, idx, current, archiveCount, hist,
    remote, namer, twin, gallery>>

\* The variables that only some of the specifications below use
sideVars == <<remote, namer, twin, gallery>>

breedKey == BreedOrder[breedIdx]

\* What the history records about the run in progress
FreshRunHist ==
  [startManifest |-> manifestFile,
   startSummary |-> summaryFile,
   startDisk |-> disk,
   listing |-> [b \in Breeds |-> "none"],
   listed |-> [b \in Breeds |-> <<>>],
   summarized |-> {},
   downloadFailed |-> {},
   fetched |-> {},
   found |-> {},
   returned |-> EmptyMap,
   verdict |-> EmptyMap,
   manifestWrites |-> 0,
   archivedBefore |-> hist.everArchived]

\* Listings a folder can return: image files with distinct ids, in any order
Assets(b) == [id : FolderIds[b], name : Names]
Listings(b) ==
  {<<>>} \cup {<<f>> : f \in Assets(b)}
  \cup {<<f, g>> : <<f, g>> \in {p \in Assets(b) \X Assets(b) : p[1].id # p[2].id}}

\* Listings of a folder whose one asset can be renamed upstream between runs
RenamedListings(b) ==
  {<<>>} \cup
  {<<[id |-> id, name |-> n]>> : <<id, n>> \in RenamedIds[b] \X RemoteNames[b]}

\* The image tree before the first process: empty, or holding one file
\* that an earlier, killed process downloaded before the asset's remote
\* content was replaced
OldDisk ==
  destPath("bouviers", FALSE, stableName([id |-> "a1", name |-> NameBuddy], 0))
    :> "v0"

SyncInit ==
  /\ clock = 0
  /\ manifestFile \in {AbsentFile, GarbageFile, JsonFile(MalformedManifest)}
  /\ summaryFile = [b \in Breeds |-> <<>>]
  /\ disk \in {EmptyMap, OldDisk}
  /\ pc = "idle"
  /\ exitCode = 0
  /\ exitCause = "none"
  /\ runNowIso = 0
  /\ manifest = EmptyManifest
  /\ breedIdx = 1
  /\ files = <<>>
  /\ idx = 1
  /\ current = <<>>
  /\ archiveCount = 0
  /\ hist = [run |-> [startManifest |-> manifestFile,
                      startSummary |-> summaryFile,
                      startDisk |-> disk,
                      listing |-> [b \in Breeds |-> "none"],
                      listed |-> [b \in Breeds |-> <<>>],
                      summarized |-> {},
                      downloadFailed |-> {},
                      fetched |-> {},
                      found |-> {},
                      returned |-> EmptyMap,
                      verdict |-> EmptyMap,
                      manifestWrites |-> 0,
                      archivedBefore |-> {}],
             established |-> EmptyMap,
             everArchived |-> {}]

\* Every content fetch succeeds or fails as it may
AnyOutcome == [plan |-> <<>>, calls |-> 0]
NamerOff == [pc |-> "off"]
TwinOff == [pc |-> "off"]
GalleryOff == [pc |-> "off"]

\* The sync script alone, before its first process
SyncOnly ==
  /\ remote = AnyOutcome
  /\ namer = NamerOff
  /\ twin = TwinOff
  /\ gallery = GalleryOff

Init == SyncInit /\ SyncOnly

\* The sync script at rest, for the specifications of its parts
SyncAtRest ==
  /\ SyncInit
  /\ manifestFile = AbsentFile
  /\ disk = EmptyMap
  /\ remote = AnyOutcome

syncVars ==
  <<clock, manifestFile, summaryFile, disk, pc, exitCode, exitCause,
    runNowIso, manifest, breedIdx, files, idx, current, archiveCount, hist,
    remote>>

\* ------------------------------------------------------------------ actions

\* main() rejected: main().catch logs and calls process.exit(1)
Reject(cause) ==
  /\ pc' = "exited"
  /\ exitCode' = 1
  /\ exitCause' = cause

\* A process starts: getDriveClient(), the folder-id check, nowIso() and
\* readManifest().  The clock never runs backwards, and a process starts
\* later than the one before it.
StartBody ==
  /\ pc \in {"idle", "exited"}
  /\ \E t \in Instants :
       /\ IF pc = "idle" THEN t >= clock ELSE t > clock
       /\ clock' = t
       /\ runNowIso' = t
  /\ manifest' = readManifest(manifestFile)
  /\ breedIdx' = 1
  /\ files' = <<>>
  /\ idx' = 1
  /\ current' = <<>>
  /\ archiveCount' = 0
  /\ pc' = "list"
  /\ exitCode' = 0
  /\ exitCause' = "none"
  /\ hist' = [hist EXCEPT !.run = FreshRunHist]
  /\ UNCHANGED <<manifestFile, summaryFile, disk>>

StartRun == StartBody /\ UNCHANGED sideVars

\* A process starts without its credential or folder ids: main() throws
\* before any collection runs
StartRunMisconfigured ==
  /\ pc \in {"idle", "exited"}
  /\ \E t \in Instants :
       /\ IF pc = "idle" THEN t >= clock ELSE t > clock
       /\ clock' = t
  /\ Reject("config")
  /\ hist' = [hist EXCEPT !.run = FreshRunHist]
  /\ UNCHANGED <<manifestFile, summaryFile, disk, progVars, sideVars>>

\* syncBreed: await listFilesInFolder(...) throws
ListFails ==
  /\ pc = "list"
  /\ Reject("listing")
  /\ hist' = [hist EXCEPT !.run.listing[breedKey] = "failed"]
  /\ UNCHANGED <<clock, manifestFile, summaryFile, disk, progVars, sideVars>>

\* syncBreed: await listFilesInFolder(...) returns, then
\* manifest.firstSeen[breedKey] = manifest.firstSeen[breedKey] || {}
\* which throws a TypeError when the parsed manifest has no firstSeen
ListStep(listings) ==
  /\ pc = "list"
  /\ \E fl \in listings :
       /\ files' = fl
       /\ hist' = [hist EXCEPT
                     !.run.listing[breedKey] = IF fl = <<>> THEN "empty" ELSE "ok",
                     !.run.listed[breedKey] = fl]
  /\ idx' = 1
  /\ current' = <<>>
  /\ archiveCount' = 0
  /\ IF "firstSeen" \in DOMAIN manifest
     THEN /\ manifest' = withBreedKey(manifest, breedKey)
          /\ pc' = "loop"
          /\ UNCHANGED <<exitCode, exitCause>>
     ELSE /\ Reject("manifest")
          /\ UNCHANGED manifest
  /\ UNCHANGED <<clock, manifestFile, summaryFile, disk, runNowIso, breedIdx,
                 sideVars>>

ListFiles == ListStep(Listings(breedKey))

\* The same call when the remote store may show an asset under another
\* display name than before, or under one with no allowed character
ListFilesRenamed == ListStep(RenamedListings(breedKey))

\* One iteration of the for loop of syncBreed over files[idx].  With
\* `record`, the history also keeps, across runs, the first value a touch
\* returned for each identity and the identities ever classified archived.
AssetBody(record, canSucceed, canFail) ==
  /\ pc = "loop"
  /\ idx <= Len(files)
  /\ LET f == files[idx]
         key == <<breedKey, f.id>>
         seen == touch(manifest.firstSeen[breedKey], f.id, runNowIso)
         firstSeenIso == seen[f.id]
         ageDays == ageDaysOf(f, firstSeenIso, runNowIso)
         arch == isArchive(ageDays)
         filename == stableName(f, clock)
         p == destPath(breedKey, arch, filename)
         item == [filename |-> filename, url |-> p, driveName |-> f.name,
                  firstSeen |-> firstSeenIso, ageDays |-> ageDays]
         present == p \in DOMAIN disk
         touched == [hist EXCEPT
                       !.run.returned = key :> firstSeenIso @@ @,
                       !.run.verdict = key :> arch @@ @,
                       !.run.found =
                         IF present
                         THEN @ \cup {[key |-> key, path |-> p, bytes |-> disk[p]]}
                         ELSE @,
                       !.established =
                         IF record THEN @ @@ key :> firstSeenIso ELSE @,
                       !.everArchived =
                         IF record /\ arch THEN @ \cup {key} ELSE @]
         push == /\ idx' = idx + 1
                 /\ current' = IF arch THEN current ELSE Append(current, item)
                 /\ archiveCount' = IF arch THEN archiveCount + 1 ELSE archiveCount
                 /\ UNCHANGED <<pc, exitCode, exitCause>>
     IN /\ manifest' = [manifest EXCEPT !.firstSeen[breedKey] = seen]
        /\ IF needsDownload(disk, p)
           THEN \/ \E bytes \in Contents :
                     \* downloadFile: drive.files.get, then fs.writeFileSync
                     /\ canSucceed
                     /\ disk' = p :> bytes @@ disk
                     /\ hist' = [touched EXCEPT !.run.fetched = @ \cup {key}]
                     /\ push
                \/ \* drive.files.get throws: syncBreed and main reject
                   /\ canFail
                   /\ Reject("download")
                   /\ hist' = [touched EXCEPT
                                 !.run.fetched = @ \cup {key},
                                 !.run.downloadFailed = @ \cup {key}]
                   /\ UNCHANGED <<disk, idx, current, archiveCount>>
           ELSE /\ hist' = touched
                /\ UNCHANGED disk
                /\ push
  /\ UNCHANGED <<clock, manifestFile, summaryFile, runNowIso, breedIdx, files>>

AssetStep(record) == AssetBody(record, TRUE, TRUE) /\ UNCHANGED sideVars

ProcessAsset == AssetStep(FALSE)
ProcessAssetRecorded == AssetStep(TRUE)

\* The end of syncBreed: the summary is written over the old one, and main
\* goes on to the next breed or to writeManifest
SummaryStep ==
  /\ pc = "loop"
  /\ idx > Len(files)
  /\ summaryFile' =
       [summaryFile EXCEPT ![breedKey] =
          <<[breed |-> breedKey, generatedAt |-> runNowIso,
             keepDays |-> DAYS_TO_KEEP_CURRENT, current |-> current,
             archiveCount |-> archiveCount]>>]
  /\ hist' = [hist EXCEPT !.run.summarized = @ \cup {breedKey}]
  /\ IF breedIdx < Len(BreedOrder)
     THEN /\ breedIdx' = breedIdx + 1
          /\ pc' = "list"
     ELSE /\ pc' = "persist"
          /\ UNCHANGED breedIdx
  /\ UNCHANGED <<clock, disk, exitCode, exitCause, runNowIso, manifest,
                 files, idx, current, archiveCount, sideVars>>

WriteSummaryAndManifest ==
  /\ SummaryStep
  /\ manifestFile' = writeManifest(manifest)
WriteSummary ==
  /\ SummaryStep
  /\ UNCHANGED manifestFile

\* main: writeManifest(manifest), and the process ends with status 0
WriteManifest ==
  /\ pc = "persist"
  /\ manifestFile' = writeManifest(manifest)
  /\ hist' = [hist EXCEPT !.run.manifestWrites = @ + 1]
  /\ pc' = "exited"
  /\ exitCode' = 0
  /\ exitCause' = "none"
  /\ UNCHANGED <<clock, summaryFile, disk, progVars, sideVars>>

\* The process is cancelled or crashes while it runs
Cancel ==
  /\ pc \in {"list", "loop", "persist"}
  /\ Reject("killed")
  /\ UNCHANGED <<clock, manifestFile, summaryFile, disk, progVars, hist,
                 sideVars>>

\* What a killed fs.writeFileSync can leave at outPath: the file is opened
\* with truncation and filled by successive writes, so it is empty or holds
\* a prefix of the content
Truncated == {"", "partial"}

\* The process is killed inside downloadFile, while fs.writeFileSync is
\* writing files[idx] to its destination path
KilledWhileWriting ==
  /\ pc = "loop"
  /\ idx <= Len(files)
  /\ LET f == files[idx]
         seen == touch(manifest.firstSeen[breedKey], f.id, runNowIso)
         arch == isArchive(ageDaysOf(f, seen[f.id], runNowIso))
         p == destPath(breedKey, arch, stableName(f, clock))
     IN /\ needsDownload(disk, p)
        /\ manifest' = [manifest EXCEPT !.firstSeen[breedKey] = seen]
        /\ \E bytes \in Truncated : disk' = p :> bytes @@ disk
        /\ hist' = [hist EXCEPT !.run.fetched = @ \cup {<<breedKey, f.id>>}]
  /\ Reject("killed")
  /\ UNCHANGED <<clock, manifestFile, summaryFile, runNowIso, breedIdx, files,
                 idx, current, archiveCount, sideVars>>

NextRun ==
  \/ StartRun
  \/ StartRunMisconfigured
  \/ ListFails
  \/ ListFiles
  \/ ProcessAsset
  \/ WriteSummary
  \/ WriteManifest

NextCancel ==
  \/ StartRun
  \/ StartRunMisconfigured
  \/ ListFails
  \/ ListFiles
  \/ ProcessAsset
  \/ WriteSummary
  \/ WriteManifest
  \/ Cancel

NextHistory ==
  \/ StartRun
  \/ StartRunMisconfigured
  \/ ListFails
  \/ ListFiles
  \/ ProcessAssetRecorded
  \/ WriteSummary
  \/ WriteManifest

\* ------------------------------------------------ failing content fetches

\* How the successive calls of drive.files.get of one run turn out; the
\* calls after the last one planned succeed
TransientTwice == <<"transient", "transient", "ok">>
Plans == {<<>>, TransientTwice, <<"unauthorized">>, <<"notFound">>}

nextOutcome ==
  IF remote.calls < Len(remote.plan) THEN remote.plan[remote.calls + 1] ELSE "ok"

\* A process starts, and the remote store will answer its fetches by a plan
StartRunFlaky ==
  /\ StartBody
  /\ remote' \in [plan : Plans, calls : {0}]
  /\ UNCHANGED <<namer, twin, gallery>>

\* One iteration of the for loop of syncBreed: downloadFile is called once,
\* and whatever drive.files.get throws rejects syncBreed and main
ProcessAssetFlaky ==
  /\ AssetBody(FALSE, nextOutcome = "ok", nextOutcome # "ok")
  /\ remote' = [remote EXCEPT
                  !.calls = IF hist'.run.fetched # hist.run.fetched THEN @ + 1 ELSE @]
  /\ UNCHANGED <<namer, twin, gallery>>

NextFlaky ==
  \/ StartRunFlaky
  \/ StartRunMisconfigured
  \/ ListFails
  \/ ListFiles
  \/ ProcessAssetFlaky
  \/ WriteSummary
  \/ WriteManifest

\* Runs whose content fetches fail by a plan
SpecFlaky == Init /\ [][NextFlaky]_vars

\* ------------------------------------------------------- the stable namer

\* Display names: a stem of at most two characters, with or without an
\* image extension
NamerChars == {"a", "!", " ", "."}
NamerStems ==
  {<<>>} \cup {<<c>> : c \in NamerChars}
  \cup {<<c, d>> : <<c, d>> \in NamerChars \X NamerChars}
NamerNames == {stem \o ext : stem \in NamerStems, ext \in {<<>>, <<".", "P", "N", "G">>}}

\* Readings of Date.now(), in milliseconds
Millis == {1000, 1001}

InitNamer ==
  /\ SyncAtRest
  /\ twin = TwinOff
  /\ gallery = GalleryOff
  /\ namer \in [pc : {"first"}, f : [id : FolderIds.bouviers, name : NamerNames],
                 ms : {0}, outs : {<<>>}]

\* The filename of namer.f is computed, at some reading of the clock
ComputeName(from, to) ==
  /\ namer.pc = from
  /\ \E t \in Millis :
       /\ t >= namer.ms
       /\ namer' = [namer EXCEPT !.pc = to, !.ms = t,
                                  !.outs = Append(@, stableName(namer.f, t))]
  /\ UNCHANGED <<syncVars, twin, gallery>>

NameFirst == ComputeName("first", "again")
\* The filename of the same asset is computed once more, in this run or in
\* a later one
NameAgain == ComputeName("again", "done")

NextNamer ==
  \/ NameFirst
  \/ NameAgain

\* Two computations of the filename of one asset
SpecNamer == InitNamer /\ [][NextNamer]_vars

\* ---------------------------------- two syncBreed calls, side by side

\* The entries drive.files.list can hold for an id, of any type and name
MixedEntries(id) ==
  [id : {id}, name : {NameBuddy, NameNotes}, mimeType : MimeTypes,
   modifiedTime : {<<0>>}, createdTime : {<<0>>}]

\* The remote times an image can carry: created and never modified, or
\* modified since
RemoteTimes ==
  {[m |-> <<>>, c |-> <<0>>],
   [m |-> <<>>, c |-> <<(DAYS_TO_KEEP_CURRENT + 1) * TicksPerDay>>],
   [m |-> <<0>>, c |-> <<0>>],
   [m |-> <<(DAYS_TO_KEEP_CURRENT + 1) * TicksPerDay>>, c |-> <<0>>]}
ImageEntries(id) ==
  {[id |-> id, name |-> NameBuddy, mimeType |-> "image/png",
    modifiedTime |-> t.m, createdTime |-> t.c] : t \in RemoteTimes}

\* Answers of drive.files.list for a folder of two files: in one page or in
\* two, in either order
Paged(e1, e2) == {<<<<e1, e2>>>>, <<<<e2, e1>>>>, <<<<e1>>, <<e2>>>>}
MixedAnswers ==
  UNION {Paged(e1, e2) : <<e1, e2>> \in MixedEntries("a1") \X MixedEntries("a2")}
ImageAnswers ==
  UNION {{<<<<e1, e2>>>>, <<<<e2, e1>>>>} :
           <<e1, e2>> \in ImageEntries("a1") \X ImageEntries("a2")}

\* A syncBreed call about to list its folder
Call(pages) ==
  [pages |-> pages, files |-> <<>>, pos |-> 1, seen |-> EmptyMap,
   current |-> <<>>, archiveCount |-> 0, age |-> EmptyMap, verdict |-> EmptyMap]

\* Two calls for the same collection, with the same manifest and run time:
\* either both get the same answer, of mixed entries, or they get two
\* answers about the same two images
InitTwin ==
  /\ SyncAtRest
  /\ namer = NamerOff
  /\ gallery = GalleryOff
  /\ \E now \in Instants \ {0, 1} :
     \E seen0 \in {EmptyMap, "a1" :> 0} :
     \E answers \in {<<a, a>> : a \in MixedAnswers} \cup (ImageAnswers \X ImageAnswers) :
       twin = [pc |-> "list", nowIso |-> now, seen0 |-> seen0,
               call |-> <<Call(answers[1]), Call(answers[2])>>]

\* const files = await listFilesInFolder(drive, folderId), and the
\* collection's part of the manifest
listed(c) ==
  [c EXCEPT !.files = listFilesInFolder(c.pages), !.seen = twin.seen0]

\* One iteration of the for loop of syncBreed, its download succeeding
looped(c) ==
  IF c.pos > Len(c.files) THEN c
  ELSE LET f == c.files[c.pos]
           seen == touch(c.seen, f.id, twin.nowIso)
           firstSeenIso == seen[f.id]
           ageDays == ageDaysOf(f, firstSeenIso, twin.nowIso)
           arch == isArchive(ageDays)
           filename == stableName(f, twin.nowIso)
           item == [filename |-> filename,
                    url |-> destPath("bouviers", arch, filename),
                    driveName |-> f.name,
                    firstSeen |-> firstSeenIso, ageDays |-> ageDays]
       IN [c EXCEPT !.pos = @ + 1,
                    !.seen = seen,
                    !.current = IF arch THEN @ ELSE Append(@, item),
                    !.archiveCount = IF arch THEN @ + 1 ELSE @,
                    !.age = f.id :> ageDays @@ @,
                    !.verdict = f.id :> arch @@ @]

TwinStep(from, to, calls) ==
  /\ twin.pc = from
  /\ twin' = [twin EXCEPT !.pc = to, !.call = calls]
  /\ UNCHANGED <<syncVars, namer, gallery>>

Unfinished(c) == c.pos <= Len(c.files)

\* Both calls list their folder
TwinList == TwinStep("list", "loop", <<listed(twin.call[1]), listed(twin.call[2])>>)

\* Both calls process their next file, if they have one left
TwinLoop ==
  /\ \E k \in 1..2 : Unfinished(twin.call[k])
  /\ TwinStep("loop", "loop", <<looped(twin.call[1]), looped(twin.call[2])>>)

\* Both calls write their summary from `current` and `archiveCount`
TwinSummary ==
  /\ \A k \in 1..2 : ~Unfinished(twin.call[k])
  /\ TwinStep("loop", "done", twin.call)

NextTwin ==
  \/ TwinList
  \/ TwinLoop
  \/ TwinSummary

\* Two syncBreed calls for one collection, over two answers of the store
SpecTwin == InitTwin /\ [][NextTwin]_vars

\* ------------------------------------------- the JSONP gallery loader

\* Calls of loadDriveGallery that one page makes
MaxCalls == 3

\* What the web app can answer: items, no item, { ok: false }, or an
\* answer whose items renderGallery cannot map over
Answers == {"items", "empty", "notOk", "unmappable"}

\* `__bonIdeeGalleryCB_${Date.now()}_${cbCounter++}`
cbNameFromClockOnly(ms, counter) == <<"__bonIdeeGalleryCB_", ms>>
cbName(ms, counter) == <<"__bonIdeeGalleryCB_", ms, counter>>

\* A page that has loaded gallery.js: let cbCounter = 0, no callback on
\* window, no script element added, and the target element as served
InitGallery ==
  /\ SyncAtRest
  /\ namer = NamerOff
  /\ twin = TwinOff
  /\ gallery = [pc |-> "on", ms |-> 1000, cbCounter |-> 0, window |-> EmptyMap,
                body |-> {}, html |-> "served", calls |-> <<>>]

GalleryStep(next) ==
  /\ gallery.pc = "on"
  /\ gallery' = next
  /\ UNCHANGED <<syncVars, namer, twin>>

\* loadDriveGallery({ key, targetId, scriptUrl }): returns at once when the
\* target element is missing; otherwise registers window[cbName], and
\* appends the script element unless new URL(scriptUrl) throws
LoadDriveGallery ==
  /\ Len(gallery.calls) < MaxCalls
  /\ \E t \in Millis, targetFound \in BOOLEAN, urlValid \in BOOLEAN :
       /\ t >= gallery.ms
       /\ LET i == Len(gallery.calls) + 1
              name == cbName(t, gallery.cbCounter)
              call(status) ==
                [cbName |-> name, at |-> t, status |-> status, runs |-> 0]
          IN GalleryStep(
               IF ~targetFound
               THEN [gallery EXCEPT !.ms = t,
                                    !.calls = Append(@, call("returned"))]
               ELSE [gallery EXCEPT
                       !.ms = t,
                       !.html = "loading",
                       !.cbCounter = @ + 1,
                       !.window = name :> i @@ @,
                       !.body = IF urlValid THEN @ \cup {i} ELSE @,
                       !.calls = Append(@, call(IF urlValid THEN "loading"
                                                            ELSE "threw"))])

\* delete window[cbName]
deleted(window, name) == [n \in DOMAIN window \ {name} |-> window[n]]

\* What the callback leaves in the target element
rendered(html, data) ==
  CASE data = "notOk" -> "unavailable"
    [] data = "items" -> "grid"
    [] data = "empty" -> "empty"
    [] OTHER -> html

\* The script of call i has loaded and runs: it calls the function that
\* window holds under the call's callback name, which renders and, in its
\* finally block, deletes its own name from window and removes its own
\* script element.  With nothing under that name the script throws.
ScriptCallsBack ==
  \E i \in 1..Len(gallery.calls), data \in Answers :
    /\ gallery.calls[i].status = "loading"
    /\ LET name == gallery.calls[i].cbName
       IN GalleryStep(
            IF name \in DOMAIN gallery.window
            THEN LET owner == gallery.window[name]
                 IN [gallery EXCEPT
                       !.html = rendered(@, data),
                       !.window = deleted(@, gallery.calls[owner].cbName),
                       !.body = @ \ {owner},
                       !.calls = [[@ EXCEPT ![i].status = "invoked"]
                                    EXCEPT ![owner].runs = @ + 1]]
            ELSE [gallery EXCEPT !.calls[i].status = "invoked"])

\* script.onerror of call i: the request failed
ScriptError ==
  \E i \in 1..Len(gallery.calls) :
    /\ gallery.calls[i].status = "loading"
    /\ GalleryStep([gallery EXCEPT
                      !.html = "failed",
                      !.window = deleted(@, gallery.calls[i].cbName),
                      !.body = @ \ {i},
                      !.calls[i].status = "errored"])

\* The script of call i has loaded but never calls the callback
ScriptIgnoresCallback ==
  \E i \in 1..Len(gallery.calls) :
    /\ gallery.calls[i].status = "loading"
    /\ GalleryStep([gallery EXCEPT !.calls[i].status = "ignored"])

NextGallery ==
  \/ LoadDriveGallery
  \/ ScriptCallsBack
  \/ ScriptError
  \/ ScriptIgnoresCallback

\* A page and the gallery requests it makes
SpecGallery == InitGallery /\ [][NextGallery]_vars

NextRename ==
  \/ StartRun
  \/ StartRunMisconfigured
  \/ ListFails
  \/ ListFilesRenamed
  \/ ProcessAsset
  \/ WriteSummary
  \/ WriteManifest

NextInterrupted ==
  \/ StartRun
  \/ StartRunMisconfigured
  \/ ListFails
  \/ ListFiles
  \/ ProcessAsset
  \/ WriteSummary
  \/ WriteManifest
  \/ KilledWhileWriting

\* Runs that end by themselves, with status 0 or 1
Spec == Init /\ [][NextRun]_vars

\* Runs that may also be cancelled or crash at any point
SpecCancel == Init /\ [][NextCancel]_vars

\* Runs that end by themselves, with the history kept across runs
SpecHistory == Init /\ [][NextHistory]_vars

\* Runs against a remote store that renames assets between runs
SpecRename == Init /\ [][NextRename]_vars

\* Runs that may also be killed while a download is being written
SpecInterrupted == Init /\ [][NextInterrupted]_vars

\* ------------------------------------------------------------ properties

Run == hist.run
Exited == pc = "exited"
Ids(fl) == {fl[k].id : k \in 1..Len(fl)}

\* C1: once a firstSeenAt value has been established for an identity, every
\* later touch of it, in this run or a later one, returns that same value.
C1_FirstSeenWriteOnce ==
  \A key \in DOMAIN Run.returned : Run.returned[key] = hist.established[key]

\* C2: a download error for one asset does not abort its collection: when
\* the process has ended, every listed asset of that collection was
\* processed and the collection's summary was written.
C2_DownloadErrorKeepsCollection ==
  Exited =>
    \A key \in Run.downloadFailed :
      /\ key[1] \in Run.summarized
      /\ \A id \in Ids(Run.listed[key[1]]) : <<key[1], id>> \in DOMAIN Run.returned

\* C3: a listing failure in one collection is fatal for that collection
\* only: when the process has ended, every other collection was listed, and
\* summarized if its own listing returned assets.
C3_ListingFailureIsolated ==
  Exited =>
    \A b \in Breeds :
      Run.listing[b] = "failed" =>
        \A o \in Breeds \ {b} :
          /\ Run.listing[o] # "none"
          /\ Run.listing[o] = "ok" => o \in Run.summarized

\* C4: when a collection's listing fails or returns no assets, the
\* collection's summary file stays as it was when the run started.
C4_FatalListingKeepsSummary ==
  \A b \in Breeds :
    Run.listing[b] \in {"failed", "empty"} => summaryFile[b] = Run.startSummary[b]

\* C5: a run that got past the configuration checks has, when it ends,
\* persisted the manifest exactly once, and never persists it before every
\* collection was attempted.
C5_ManifestPersistedOnce ==
  /\ (Exited /\ exitCause # "config") => Run.manifestWrites = 1
  /\ Run.manifestWrites > 0 => \A b \in Breeds : Run.listing[b] # "none"

\* C6: a run that is cancelled or crashes before the final persist leaves
\* the manifest file exactly as it was when the run started.
C6_KilledRunKeepsManifest ==
  (Exited /\ exitCause = "killed") => manifestFile = Run.startManifest

\* C6 witness: a run was killed after touching assets in memory, and the
\* manifest file still holds the entries committed before the run, without
\* the touches.
C6_Witness ==
  /\ Exited /\ exitCause = "killed"
  /\ manifestFile = Run.startManifest
  /\ manifestFile.state = "json"
  /\ "firstSeen" \in DOMAIN manifestFile.value
  /\ \E b \in DOMAIN manifestFile.value.firstSeen :
       /\ manifestFile.value.firstSeen[b] # EmptyMap
       /\ \E id \in DOMAIN manifest.firstSeen[b] :
            id \notin DOMAIN manifestFile.value.firstSeen[b]

WellFormed(file) == file.state = "json" /\ "firstSeen" \in DOMAIN file.value

\* C7: whatever the manifest file holds at start-up (absent, not parseable,
\* or parseable but not a well-formed manifest), loading it never makes the
\* run fail, and every listed asset is touched with the current run time.
C7_ManifestLoadNeverFatal ==
  ~WellFormed(Run.startManifest) =>
    /\ exitCause # "manifest"
    /\ \A key \in DOMAIN Run.returned : Run.returned[key] = runNowIso

\* C8: an asset classified ARCHIVED in an earlier run is classified
\* ARCHIVED in every later run in which it is listed.
C8_ArchivedStaysArchived ==
  \A key \in DOMAIN Run.verdict : key \in Run.archivedBefore => Run.verdict[key]

\* C8 witness: an asset archived by an earlier run is listed and classified
\* again.
C8_Witness ==
  \E key \in DOMAIN Run.verdict : key \in Run.archivedBefore /\ Run.verdict[key]

\* Whole days since the asset was first seen, from the run's manifest
AgeOf(b, id) == (runNowIso - manifest.firstSeen[b][id]) \div TicksPerDay
\* Positions of the asset in the current list of a written summary
Entries(b, id) ==
  {j \in 1..Len(summaryFile[b][1].current) :
     summaryFile[b][1].current[j].filename[2] = sha1Prefix(id)}

\* C9: in every summary a run writes, each listed asset appears exactly once
\* in the current list if its age in whole days is <= 90 and not at all
\* otherwise, with that age; the current list and the archived count
\* together account for every listed asset.
C9_SummaryAccountsForAssets ==
  \A b \in Run.summarized :
    /\ Len(summaryFile[b][1].current) + summaryFile[b][1].archiveCount
         = Len(Run.listed[b])
    /\ \A id \in Ids(Run.listed[b]) :
         /\ Cardinality(Entries(b, id)) = IF AgeOf(b, id) <= 90 THEN 1 ELSE 0
         /\ \A j \in Entries(b, id) :
              summaryFile[b][1].current[j].ageDays = AgeOf(b, id)

\* C9 witness: a summary whose listing held an asset at exactly 90 days,
\* kept in the current list, and one at 91 days, counted as archived.
C9_Witness ==
  \E b \in Run.summarized :
    /\ summaryFile[b][1].archiveCount = 1
    /\ \E id \in Ids(Run.listed[b]) : AgeOf(b, id) = 90 /\ Entries(b, id) # {}
    /\ \E id \in Ids(Run.listed[b]) : AgeOf(b, id) = 91 /\ Entries(b, id) = {}

\* C10: an asset whose destination path held non-empty content when it was
\* processed is not fetched, and the path holds the same bytes afterwards
\* as when the run started.
C10_ExistingFileNotFetched ==
  \A r \in Run.found :
    r.bytes # "" =>
      /\ r.key \notin Run.fetched
      /\ r.path \in DOMAIN disk
      /\ disk[r.path] = r.bytes
      /\ r.path \in DOMAIN Run.startDisk => disk[r.path] = Run.startDisk[r.path]

\* C10 witness: a run ended after finding a file whose bytes differ from
\* what a download delivers now.
C10_Witness ==
  /\ Exited /\ exitCode = 0
  /\ \E r \in Run.found : r.bytes \notin Contents /\ disk[r.path] = r.bytes

\* C11: a file that exists at a destination path holds full content: no
\* path holds an empty or partial file, and the existence check of a run
\* never finds (and skips) one.
C11_ExistingFileIsComplete ==
  /\ \A p \in DOMAIN disk : disk[p] \notin Truncated
  /\ \A r \in Run.found : r.bytes \notin Truncated

\* C12: an asset id maps to one local filename over all runs: an area of a
\* collection never holds two files for the same id, and a run never
\* fetches an asset for which the area already held a file when the run
\* started.
C12_OneFilenamePerAsset ==
  /\ \A p, q \in DOMAIN disk :
       (p[1] = q[1] /\ p[2] = q[2] /\ p[3][2] = q[3][2]) => p = q
  /\ \A key \in Run.fetched :
       key \in DOMAIN Run.verdict =>
         \A p \in DOMAIN Run.startDisk :
           ~(/\ p[1] = key[1]
             /\ p[2] = destPath(key[1], Run.verdict[key], <<>>)[2]
             /\ p[3][2] = sha1Prefix(key[2]))

\* C13: two invocations of the namer with the same display name and id give
\* the same filename, also when the sanitized base is empty.
C13_NamerDeterministic ==
  namer.pc = "done" => namer.outs[1] = namer.outs[2]

\* The entries of an answer, over all its pages
RECURSIVE entriesOf(_)
entriesOf(pages) ==
  IF pages = <<>> THEN {}
  ELSE {Head(pages)[k] : k \in 1..Len(Head(pages))} \cup entriesOf(Tail(pages))

\* C15: two calls that are given the same set of assets, with the same
\* manifest, write the same current list, whatever order the store returned
\* the assets in.
C15_CurrentOrderReproducible ==
  (/\ twin.pc = "done"
   /\ entriesOf(twin.call[1].pages) = entriesOf(twin.call[2].pages)) =>
    twin.call[1].current = twin.call[2].current

\* C14: the current and archive areas of a collection are disjoint: no
\* filename exists in both at once.
C14_AreasDisjoint ==
  \A p \in DOMAIN disk :
    p[2] = "current" => <<p[1], "archive", p[3]>> \notin DOMAIN disk

\* C16: when the fetches of a run fail transiently twice and then succeed,
\* the run ends with every asset it had to fetch materialized, and in the
\* current list of its collection's summary if it is current; after an
\* authorization or not-found error no further fetch is made.
C16_TransientFetchRetried ==
  /\ (Exited /\ remote.plan = TransientTwice) =>
       \A key \in Run.fetched :
         /\ \E p \in DOMAIN disk :
              /\ p[1] = key[1]
              /\ p[3][2] = sha1Prefix(key[2])
              /\ disk[p] \in Contents
         /\ ~Run.verdict[key] =>
              /\ key[1] \in Run.summarized
              /\ Entries(key[1], key[2]) # {}
  /\ (Exited /\ remote.plan \in {<<"unauthorized">>, <<"notFound">>}) =>
       remote.calls <= 1

\* C17: the lister returns exactly the entries whose MIME type is an image
\* type or, when the MIME type is absent or generic, whose filename has an
\* image extension.
C17_ListerKeepsExactlyImages ==
  twin.pc \in {"loop", "done"} =>
    \A k \in 1..2 :
      Ids(twin.call[k].files) =
        {e.id : e \in
           {e \in entriesOf(twin.call[k].pages) :
              \/ startsWithImage(e.mimeType)
              \/ /\ e.mimeType \in {"", "application/octet-stream"}
                 /\ hasImageExt(e.name)}}

\* Two answers that differ in the remote timestamps of their entries only
OnlyTimesDiffer(p, q) ==
  /\ Len(p) = Len(q)
  /\ \A i \in 1..Len(p) :
       /\ Len(p[i]) = Len(q[i])
       /\ \A j \in 1..Len(p[i]) :
            /\ p[i][j].id = q[i][j].id
            /\ p[i][j].name = q[i][j].name
            /\ p[i][j].mimeType = q[i][j].mimeType

\* C18: two calls whose answers differ only in the remote createdTime and
\* modifiedTime, with the same manifest and run time, give every asset the
\* same bucket and the same age.
C18_BucketIgnoresRemoteTimes ==
  (/\ twin.pc = "done"
   /\ OnlyTimesDiffer(twin.call[1].pages, twin.call[2].pages)) =>
    /\ twin.call[1].verdict = twin.call[2].verdict
    /\ twin.call[1].age = twin.call[2].age
    /\ twin.call[1].archiveCount = twin.call[2].archiveCount

\* C18 witness: two calls whose answers differ in the remote times, so that
\* they process the assets in different orders, archived one asset and kept
\* the other.
C18_Witness ==
  /\ twin.pc = "done"
  /\ OnlyTimesDiffer(twin.call[1].pages, twin.call[2].pages)
  /\ twin.call[1].pages # twin.call[2].pages
  /\ twin.call[1].files[1].id # twin.call[2].files[1].id
  /\ \E id \in DOMAIN twin.call[1].verdict : twin.call[1].verdict[id]
  /\ \E id \in DOMAIN twin.call[1].verdict : ~twin.call[1].verdict[id]

\* C19: every item of the current list of a summary file has its file in
\* the collection's current area, at the path its url names.
C19_CurrentItemsHaveFiles ==
  \A b \in Breeds :
    summaryFile[b] # <<>> =>
      \A j \in 1..Len(summaryFile[b][1].current) :
        LET it == summaryFile[b][1].current[j]
        IN /\ it.url = <<b, "current", it.filename>>
           /\ it.url \in DOMAIN disk

\* C19 witness: a run wrote a summary listing an asset it had to download.
C19_Witness ==
  \E b \in Run.summarized :
    \E j \in 1..Len(summaryFile[b][1].current) :
      /\ summaryFile[b][1].current[j].url \in DOMAIN disk
      /\ summaryFile[b][1].current[j].url \notin DOMAIN Run.startDisk

\* C20: the calls whose request is pending hold pairwise distinct callback
\* names, each registered on window; once a call's script has invoked the
\* callback or raised a load error, its callback is off window and its
\* script element is detached; no callback runs more than once.
C20_CallbackSettlesOnce ==
  gallery.pc = "on" =>
    \A i \in 1..Len(gallery.calls) :
      LET c == gallery.calls[i]
      IN /\ c.status = "loading" =>
              /\ c.cbName \in DOMAIN gallery.window
              /\ gallery.window[c.cbName] = i
              /\ i \in gallery.body
              /\ \A j \in 1..Len(gallery.calls) :
                   (j # i /\ gallery.calls[j].status = "loading") =>
                     gallery.calls[j].cbName # c.cbName
         /\ c.status \in {"invoked", "errored"} =>
              /\ c.cbName \notin DOMAIN gallery.window
              /\ i \notin gallery.body
         /\ c.status = "invoked" => c.runs = 1
         /\ c.runs <= 1

\* C20 witness: of three calls made in the same millisecond, one was called
\* back, one failed to load and one is still pending.
C20_Witness ==
  /\ gallery.pc = "on"
  /\ Len(gallery.calls) >= 3
  /\ \E i, j, k \in 1..Len(gallery.calls) :
       /\ gallery.calls[i].at = gallery.calls[j].at
       /\ gallery.calls[j].at = gallery.calls[k].at
       /\ gallery.calls[i].status = "invoked" /\ gallery.calls[i].runs = 1
       /\ gallery.calls[j].status = "errored"
       /\ gallery.calls[k].status = "loading"

====
